---------------------------- MODULE Spec2Model ----------------------------
(***************************************************************************)
(* A model of src/main.py: the cached market-data gateway, the ranking     *)
(* transform, the notional aggregator, the spread tracker and the polling  *)
(* loop of main().                                                         *)
(*                                                                         *)
(* Decimal values are modelled as integers: every price, quantity and      *)
(* volume string of the model denotes an integer, Decimal(s) is that       *)
(* integer, and float(d) of an integer of this size is exact.              *)
(***************************************************************************)
EXTENDS Integers, Sequences, FiniteSets, TLC

(***************************************************************************)
(* Bounds of the model.                                                    *)
(***************************************************************************)
MaxTickers == 3
MaxTop == 2
MaxVolume == 2
ExtraOrders == 100
MaxCycles == 2
MaxLatency == 1

(***************************************************************************)
(* Program constants.                                                      *)
(***************************************************************************)
CACHE_TTL == 60
BOOK_TICKER_TTL == 10
TOP_ORDERS == 200
TOP == 5
SLEEP_SECONDS == 10

Min(a, b) == IF a < b THEN a ELSE b

Abs(x) == IF x < 0 THEN -x ELSE x

\* Decimal(s): the strings of the model denote integers.
ToDecimal(s) == s

\* float(d): exact for the integers of the model.
ToFloat(d) == d

Range(s) == {s[i] : i \in 1..Len(s)}

Take(s, n) == SubSeq(s, 1, Min(n, Len(s)))

RECURSIVE FilterSeq(_, _)
\* list(filter(lambda x: x.symbol in names, s)), for records with a symbol.
FilterSeq(s, names) ==
    IF s = <<>> THEN <<>>
    ELSE IF Head(s).symbol \in names
         THEN <<Head(s)>> \o FilterSeq(Tail(s), names)
         ELSE FilterSeq(Tail(s), names)

(***************************************************************************)
(* sorted(xs, key=itemgetter(k), reverse=r) on a sequence of <<key, item>> *)
(* pairs.  Python's sort is stable, and with reverse=True it keeps the     *)
(* original order of the elements whose keys are equal.                    *)
(***************************************************************************)
\* A sort that reverses an ascending sort: equal keys come out in reverse.
PrecedesByReversal(s, reverse, j, k) ==
    IF reverse
    THEN s[j][1] > s[k][1] \/ (s[j][1] = s[k][1] /\ j > k)
    ELSE s[j][1] < s[k][1] \/ (s[j][1] = s[k][1] /\ j < k)

\* Element j of s comes before element k in the sorted list.
Precedes(s, reverse, j, k) ==
    \/ IF reverse THEN s[j][1] > s[k][1] ELSE s[j][1] < s[k][1]
    \/ s[j][1] = s[k][1] /\ j < k

PySorted(s, reverse) ==
    LET n == Len(s)
        place == SubSeq([k \in 1..n |->
                            1 + Cardinality({j \in 1..n : Precedes(s, reverse, j, k)})],
                        1, n)
    IN  [p \in 1..n |-> s[CHOOSE k \in 1..n : place[k] = p]]


RECURSIVE SumNotional(_)
\* sum([x[0] * x[1] for x in order]), added up by halves.
SumNotional(order) ==
    LET n == Len(order)
        h == n \div 2
    IN  IF n = 0 THEN 0
        ELSE IF n = 1 THEN order[1][1] * order[1][2]
        ELSE SumNotional(SubSeq(order, 1, h)) + SumNotional(SubSeq(order, h + 1, n))

(***************************************************************************)
(* The ranking transform.                                                  *)
(***************************************************************************)
\* The symbol names of the exchange-info records with the given quote asset.
get_symbols_by_quote_asset(exchange_info, quote_asset) ==
    {exchange_info.symbols[k].symbol :
        k \in {j \in 1..Len(exchange_info.symbols) :
                 exchange_info.symbols[j].quoteAsset = quote_asset}}

RECURSIVE symbols_with_top_by_value(_, _)
symbols_with_top_by_value(tickers, symbols_names) ==
    IF tickers = <<>> THEN <<>>
    ELSE IF Head(tickers).symbol \notin symbols_names
         THEN symbols_with_top_by_value(Tail(tickers), symbols_names)
         ELSE <<[symbol |-> Head(tickers).symbol,
                 value |-> ToDecimal(Head(tickers).volume)]>>
              \o symbols_with_top_by_value(Tail(tickers), symbols_names)

\* sorted(records, key=itemgetter("value"), reverse=reverse)
SortedByValue(records, reverse) ==
    LET keyed == [k \in 1..Len(records) |-> <<records[k].value, records[k]>>]
        sorted == PySorted(keyed, reverse)
    IN  [k \in 1..Len(sorted) |-> sorted[k][2]]

\* A ranking that cuts to the first `top` matching records before it sorts.
TopSymbolsCutFirst(exchange_info, tickers, quote_asset, top, reverse) ==
    SortedByValue(
        Take(symbols_with_top_by_value(
                 tickers, get_symbols_by_quote_asset(exchange_info, quote_asset)),
             top),
        reverse)

get_top_symbols_by_quote_asset_by(exchange_info, tickers, quote_asset, top, reverse) ==
    Take(SortedByValue(
             symbols_with_top_by_value(
                 tickers, get_symbols_by_quote_asset(exchange_info, quote_asset)),
             reverse),
         top)

get_top_symbols_by_volume_in_24h(exchange_info, tickers, quote_asset) ==
    get_top_symbols_by_quote_asset_by(exchange_info, tickers, quote_asset, TOP, TRUE)

(***************************************************************************)
(* The notional aggregator: the two entries of one symbol.                 *)
(***************************************************************************)
sort_orders_by_price(x) == Take(PySorted(x, TRUE), TOP_ORDERS)

CastOrders(orders) ==
    [k \in 1..Len(orders) |-> <<ToDecimal(orders[k][1]), ToDecimal(orders[k][2])>>]

NotionalEntries(symbol, order_book) ==
    LET asks0 == CastOrders(order_book.asks)
        bids0 == CastOrders(order_book.asks)
        asks == sort_orders_by_price(asks0)
        bids == sort_orders_by_price(asks)
    IN  << [symbol |-> symbol, type |-> "bid", value |-> SumNotional(bids)],
           [symbol |-> symbol, type |-> "ask", value |-> SumNotional(asks)] >>

(***************************************************************************)
(* The spread tracker.                                                     *)
(***************************************************************************)
\* A spread computed in the order of the tracked symbol list.
SpreadInSymbolOrder(symbols, book_ticker) ==
    LET RECURSIVE bySymbol(_)
        bySymbol(syms) ==
            IF syms = <<>> THEN <<>>
            ELSE FilterSeq(book_ticker, {Head(syms)}) \o bySymbol(Tail(syms))
        f == bySymbol(symbols)
    IN  [k \in 1..Len(f) |->
            [symbol |-> f[k].symbol,
             value |-> ToDecimal(f[k].askPrice) - ToDecimal(f[k].bidPrice)]]

get_price_spread_by_symbols(symbols, book_ticker) ==
    LET f == FilterSeq(book_ticker, Range(symbols))
    IN  [k \in 1..Len(f) |->
            [symbol |-> f[k].symbol,
             value |-> ToDecimal(f[k].askPrice) - ToDecimal(f[k].bidPrice)]]


(***************************************************************************)
(* The state of the process, of its cache files and of its metrics sink.   *)
(***************************************************************************)
VARIABLES
    pc,               \* the position of main()
    now,              \* time.time(), in seconds
    cache_on,         \* CACHE
    f_exchange_info,  \* /tmp/get_exchange_info.pickle: <<>> or <<[mtime, data]>>
    f_24h_ticker,     \* /tmp/get_24h_ticker.pickle
    f_order_book,     \* /tmp/get_order_book.pickle
    f_book_ticker,    \* /tmp/get_book_ticker.pickle
    exchange_info,    \* what get_exchange_info() returned last
    top_5_btc,        \* top_5_btc_symbols_by_volume["data"]
    top_5_usdt,       \* top_5_usdt_symbols_by_volume["data"]
    notional_values,  \* notional_value of get_top_total_notional_value_by_symbols
    prev,             \* price_spread_by_top5_usdt_symbols["data"]
    new,              \* new_price_spread_by_top5_usdt_symbols["data"]
    i,                \* the index of the delta loop
    prom_spread,      \* gauge price_spread: symbol -> value, for the labels set
    spread_delta,     \* gauge spread_delta
    server,           \* start_wsgi_server has been called
    printed,          \* the reports of spread and delta printed so far
    cycle,            \* the number of completed polling cycles
    hist,             \* history: what get_price_spread_by_symbols returned, call by call
    requests,         \* history: the number of requests sent to the gateway
    failed,           \* history: a gateway request has failed
    books_used,       \* history: per get_order_book call, the symbol asked and the snapshot got
    calls,            \* history: per get_book_ticker call that returned, when and from where
    args,             \* the arguments of a function called on its own
    ret               \* what the function called on its own returned, call by call

vars == << pc, now, cache_on, f_exchange_info, f_24h_ticker, f_order_book,
           f_book_ticker, exchange_info, top_5_btc, top_5_usdt, notional_values,
           prev, new, i, prom_spread, spread_delta, server, printed, cycle,
           hist, requests, failed, books_used, calls, args, ret >>

files == << f_exchange_info, f_24h_ticker, f_order_book, f_book_ticker >>
gauges == << prom_spread, spread_delta >>
history == << hist, requests, failed, books_used, calls >>
alone == << args, ret >>

(***************************************************************************)
(* What the gateway may answer.                                            *)
(***************************************************************************)
ExchangeInfoResponses ==
    { [symbols |-> << [symbol |-> "ABTC", quoteAsset |-> "BTC"],
                      [symbol |-> "AUSDT", quoteAsset |-> "USDT"],
                      [symbol |-> "BBTC", quoteAsset |-> "BTC"],
                      [symbol |-> "BUSDT", quoteAsset |-> "USDT"] >>] }

TickerResponses ==
    { << [symbol |-> "ABTC", volume |-> 1], [symbol |-> "AUSDT", volume |-> 2],
         [symbol |-> "BBTC", volume |-> 2], [symbol |-> "BUSDT", volume |-> 2] >>,
      << [symbol |-> "BUSDT", volume |-> 1], [symbol |-> "ABTC", volume |-> 2],
         [symbol |-> "AUSDT", volume |-> 1] >> }

OrderBookResponses(symbol) ==
    { [symbol |-> symbol, asks |-> << <<3, 1>>, <<4, 2>> >>, bids |-> << <<2, 2>> >>],
      [symbol |-> symbol, asks |-> << <<5, 1>> >>, bids |-> << <<4, 1>>, <<3, 1>> >>] }

BookTickerResponses ==
    { << [symbol |-> "AUSDT", bidPrice |-> 1, askPrice |-> 2],
         [symbol |-> "ABTC", bidPrice |-> 1, askPrice |-> 2],
         [symbol |-> "BUSDT", bidPrice |-> 1, askPrice |-> 3] >>,
      << [symbol |-> "AUSDT", bidPrice |-> 1, askPrice |-> 5],
         [symbol |-> "ABTC", bidPrice |-> 2, askPrice |-> 3],
         [symbol |-> "BUSDT", bidPrice |-> 2, askPrice |-> 3] >>,
      << [symbol |-> "BUSDT", bidPrice |-> 1, askPrice |-> 4],
         [symbol |-> "AUSDT", bidPrice |-> 1, askPrice |-> 2] >>,
      << [symbol |-> "AUSDT", bidPrice |-> 2, askPrice |-> 4] >> }

\* The ages a book-ticker cache file left by an earlier run may have at start.
PreAges == {BOOK_TICKER_TTL - MaxLatency, BOOK_TICKER_TTL}

(***************************************************************************)
(* cached: the wrapper serves the file when it exists, CACHE is on and     *)
(* file_mtime + ttl >= current_time; otherwise it calls the function and   *)
(* writes the file.                                                        *)
(***************************************************************************)
\* A wrapper that takes a file as old as the ttl to have expired.
CacheHitStrict(file, ttl) ==
    /\ file # <<>>
    /\ cache_on
    /\ file[1].mtime + ttl > now

CacheHit(file, ttl) ==
    /\ file # <<>>
    /\ cache_on
    /\ file[1].mtime + ttl >= now

\* The outcomes of a cached call whose request succeeds; the request answers
\* at once or after `latency` seconds and the file is written when it has
\* answered.
Served(file, ttl, responses, latency) ==
    IF CacheHit(file, ttl)
    THEN {[data |-> file[1].data, file |-> file, now |-> now, req |-> 0]}
    ELSE {[data |-> r, file |-> <<[mtime |-> now + d, data |-> r]>>,
           now |-> now + d, req |-> 1] : r \in responses, d \in {0, latency}}


(***************************************************************************)
(* main()                                                                  *)
(***************************************************************************)
symbols_for_notional_value == [k \in 1..Len(top_5_btc) |-> top_5_btc[k].symbol]

symbols_for_spread == [k \in 1..Len(top_5_usdt) |-> top_5_usdt[k].symbol]

\* The symbol whose order book the aggregator's loop asks for next.
NotionalIndex == Len(notional_values) \div 2 + 1

Init ==
    /\ pc = "btc_info"
    /\ now = 0
    /\ cache_on \in BOOLEAN
    /\ f_exchange_info = <<>>
    /\ f_24h_ticker = <<>>
    /\ f_order_book = <<>>
    /\ f_book_ticker \in {<<>>} \cup
           {<<[mtime |-> 0 - a, data |-> r]>> : a \in PreAges, r \in BookTickerResponses}
    /\ exchange_info = [symbols |-> <<>>]
    /\ top_5_btc = <<>>
    /\ top_5_usdt = <<>>
    /\ notional_values = <<>>
    /\ prev = <<>>
    /\ new = <<>>
    /\ i = 0
    /\ prom_spread = <<>>
    /\ spread_delta = <<>>
    /\ server = FALSE
    /\ printed = <<>>
    /\ cycle = 0
    /\ hist = <<>>
    /\ requests = 0
    /\ failed = FALSE
    /\ books_used = <<>>
    /\ calls = <<>>
    /\ args = <<>>
    /\ ret = <<>>

\* get_symbols_by_quote_asset: exchange_info = get_exchange_info()
GetExchangeInfo(at, next) ==
    /\ pc = at
    /\ \E o \in Served(f_exchange_info, CACHE_TTL, ExchangeInfoResponses, 0) :
          /\ exchange_info' = o.data
          /\ f_exchange_info' = o.file
          /\ now' = o.now
          /\ requests' = requests + o.req
    /\ pc' = next
    /\ UNCHANGED << cache_on, f_24h_ticker, f_order_book, f_book_ticker, top_5_btc,
                    top_5_usdt, notional_values, prev, new, i, gauges, server,
                    printed, cycle, hist, failed, books_used, calls, alone >>

\* top_5_btc_symbols_by_volume = get_top_symbols_by_volume_in_24h("BTC")
RankBTC ==
    /\ pc = "btc_ticker"
    /\ \E o \in Served(f_24h_ticker, CACHE_TTL, TickerResponses, 0) :
          /\ top_5_btc' = get_top_symbols_by_volume_in_24h(exchange_info, o.data, "BTC")
          /\ f_24h_ticker' = o.file
          /\ now' = o.now
          /\ requests' = requests + o.req
    /\ pc' = "usdt_info"
    /\ UNCHANGED << cache_on, f_exchange_info, f_order_book, f_book_ticker,
                    exchange_info, top_5_usdt, notional_values, prev, new, i, gauges,
                    server, printed, cycle, hist, failed, books_used, calls, alone >>

\* top_5_usdt_symbols_by_volume = get_top_symbols_by_volume_in_24h("USDT")
RankUSDT ==
    /\ pc = "usdt_ticker"
    /\ \E o \in Served(f_24h_ticker, CACHE_TTL, TickerResponses, 0) :
          /\ top_5_usdt' = get_top_symbols_by_volume_in_24h(exchange_info, o.data, "USDT")
          /\ f_24h_ticker' = o.file
          /\ now' = o.now
          /\ requests' = requests + o.req
    /\ pc' = "notional"
    /\ UNCHANGED << cache_on, f_exchange_info, f_order_book, f_book_ticker,
                    exchange_info, top_5_btc, notional_values, prev, new, i, gauges,
                    server, printed, cycle, hist, failed, books_used, calls, alone >>

\* One turn of the loop of get_top_total_notional_value_by_symbols.
NotionalOfSymbol ==
    /\ pc = "notional"
    /\ NotionalIndex <= Len(symbols_for_notional_value)
    /\ LET symbol == symbols_for_notional_value[NotionalIndex]
       IN  \E o \in Served(f_order_book, CACHE_TTL, OrderBookResponses(symbol), 0) :
              /\ notional_values' = notional_values \o NotionalEntries(symbol, o.data)
              /\ books_used' = Append(books_used, [symbol |-> symbol, order_book |-> o.data])
              /\ f_order_book' = o.file
              /\ now' = o.now
              /\ requests' = requests + o.req
    /\ UNCHANGED << pc, cache_on, f_exchange_info, f_24h_ticker, f_book_ticker,
                    exchange_info, top_5_btc, top_5_usdt, prev, new, i, gauges, server,
                    printed, cycle, hist, failed, calls, alone >>

\* The aggregator returns; main prints the notional values.
NotionalDone ==
    /\ pc = "notional"
    /\ NotionalIndex > Len(symbols_for_notional_value)
    /\ pc' = "baseline"
    /\ UNCHANGED << now, cache_on, files, exchange_info, top_5_btc, top_5_usdt,
                    notional_values, prev, new, i, gauges, server, printed, cycle,
                    history, alone >>

\* price_spread_by_top5_usdt_symbols = get_price_spread_by_symbols(symbols_for_spread)
Baseline ==
    /\ pc = "baseline"
    /\ \E o \in Served(f_book_ticker, BOOK_TICKER_TTL, BookTickerResponses, MaxLatency) :
          /\ prev' = get_price_spread_by_symbols(symbols_for_spread, o.data)
          /\ hist' = Append(hist, get_price_spread_by_symbols(symbols_for_spread, o.data))
          /\ calls' = Append(calls, [at |-> now, done |-> o.now, hit |-> o.req = 0,
                                      mtime |-> o.file[1].mtime])
          /\ f_book_ticker' = o.file
          /\ now' = o.now
          /\ requests' = requests + o.req
    /\ pc' = "start_server"
    /\ UNCHANGED << cache_on, f_exchange_info, f_24h_ticker, f_order_book,
                    exchange_info, top_5_btc, top_5_usdt, notional_values, new, i,
                    gauges, server, printed, cycle, failed, books_used, alone >>

\* A server started as main() begins, before anything is fetched.
StartServerFirst ==
    /\ pc \in {"btc_info", "start_server"}
    /\ ~server
    /\ server' = TRUE
    /\ pc' = IF pc = "start_server" THEN "fetch" ELSE pc
    /\ UNCHANGED << now, cache_on, files, exchange_info, top_5_btc, top_5_usdt,
                    notional_values, prev, new, i, gauges, printed, cycle, history,
                    alone >>

\* The seconds that may pass between the baseline and the first fetch of the
\* loop, while main() prints and starts the server: none, a few, or more than
\* the ttl of the book ticker.
StartGaps == {0, MaxLatency, BOOK_TICKER_TTL + 1}

\* The gauges are registered and start_wsgi_server(PORT) is called.
StartServer ==
    /\ pc = "start_server"
    /\ server' = TRUE
    /\ \E d \in StartGaps : now' = now + d
    /\ pc' = "fetch"
    /\ UNCHANGED << cache_on, files, exchange_info, top_5_btc, top_5_usdt,
                    notional_values, prev, new, i, gauges, printed, cycle, history,
                    alone >>

\* new_price_spread_by_top5_usdt_symbols = get_price_spread_by_symbols(symbols_for_spread)
Fetch ==
    /\ pc = "fetch"
    /\ cycle < MaxCycles
    /\ \E o \in Served(f_book_ticker, BOOK_TICKER_TTL, BookTickerResponses, MaxLatency) :
          /\ new' = get_price_spread_by_symbols(symbols_for_spread, o.data)
          /\ hist' = Append(hist, get_price_spread_by_symbols(symbols_for_spread, o.data))
          /\ calls' = Append(calls, [at |-> now, done |-> o.now, hit |-> o.req = 0,
                                      mtime |-> o.file[1].mtime])
          /\ f_book_ticker' = o.file
          /\ now' = o.now
          /\ requests' = requests + o.req
    /\ pc' = "sleep"
    /\ UNCHANGED << cache_on, f_exchange_info, f_24h_ticker, f_order_book,
                    exchange_info, top_5_btc, top_5_usdt, notional_values, prev, i,
                    gauges, server, printed, cycle, failed, books_used, alone >>

\* time.sleep(10), then the loop over range(len(new)) starts.  The sleep lasts
\* at least 10 seconds and the work around it takes time: the next read of
\* the clock is more than 10 seconds after the last one, by a second here
\* (the fetch that follows finds its entry expired whatever the excess is).
Sleep ==
    /\ pc = "sleep"
    /\ now' = now + SLEEP_SECONDS + 1
    /\ i' = 1
    /\ pc' = "delta"
    /\ UNCHANGED << cache_on, files, exchange_info, top_5_btc, top_5_usdt,
                    notional_values, prev, new, gauges, server, printed, cycle,
                    history, alone >>

\* The gauge with the value of one label set.
SetGauge(gauge, symbol, value) ==
    [s \in DOMAIN gauge \cup {symbol} |-> IF s = symbol THEN value ELSE gauge[s]]

\* A delta taken against the previous spread of the same symbol.
DeltaBySymbol(current, previous, k) ==
    LET same == {j \in 1..Len(previous) : previous[j].symbol = current[k].symbol}
    IN  IF same = {} THEN 0
        ELSE Abs(current[k].value - previous[CHOOSE j \in same : TRUE].value)

\* delta = abs(new[i]["value"] - previous[i]["value"])
DeltaAt(current, previous, k) == Abs(current[k].value - previous[k].value)

\* One turn of the loop: the delta of index i and its two gauges.
DeltaStep ==
    /\ pc = "delta"
    /\ i <= Len(new)
    /\ i <= Len(prev)
    /\ LET delta == DeltaAt(new, prev, i)
       IN  /\ new' = [new EXCEPT ![i] = [symbol |-> new[i].symbol,
                                         value |-> new[i].value,
                                         delta |-> delta]]
           /\ prom_spread' = SetGauge(prom_spread, new[i].symbol, ToFloat(new[i].value))
           /\ spread_delta' = SetGauge(spread_delta, new[i].symbol, ToFloat(delta))
    /\ i' = i + 1
    /\ UNCHANGED << pc, now, cache_on, files, exchange_info, top_5_btc, top_5_usdt,
                    notional_values, prev, server, printed, cycle, history, alone >>

\* A loop that passes over an index the previous set does not have.
DeltaIndexSkipped ==
    /\ pc = "delta"
    /\ i <= Len(new)
    /\ i > Len(prev)
    /\ i' = i + 1
    /\ UNCHANGED << pc, now, cache_on, files, exchange_info, top_5_btc, top_5_usdt,
                    notional_values, prev, new, gauges, server, printed, cycle,
                    history, alone >>

\* previous[i] does not exist: IndexError ends the process.
DeltaIndexError ==
    /\ pc = "delta"
    /\ i <= Len(new)
    /\ i > Len(prev)
    /\ pc' = "Terminated"
    /\ UNCHANGED << now, cache_on, files, exchange_info, top_5_btc, top_5_usdt,
                    notional_values, prev, new, i, gauges, server, printed, cycle,
                    history, alone >>

\* The loop is over: print_formatted_data(new, spread_delta=True)
PrintReport ==
    /\ pc = "delta"
    /\ i > Len(new)
    /\ printed' = Append(printed, new)
    /\ pc' = "replace"
    /\ UNCHANGED << now, cache_on, files, exchange_info, top_5_btc, top_5_usdt,
                    notional_values, prev, new, i, gauges, server, cycle, history,
                    alone >>

\* A cycle that ends without the assignment: the baseline stays the previous set.
ReplaceForgotten ==
    /\ pc = "replace"
    /\ cycle' = cycle + 1
    /\ pc' = "fetch"
    /\ UNCHANGED << now, cache_on, files, exchange_info, top_5_btc, top_5_usdt,
                    notional_values, prev, new, i, gauges, server, printed, history,
                    alone >>

\* price_spread_by_top5_usdt_symbols = new_price_spread_by_top5_usdt_symbols
Replace ==
    /\ pc = "replace"
    /\ prev' = new
    /\ cycle' = cycle + 1
    /\ pc' = "fetch"
    /\ UNCHANGED << now, cache_on, files, exchange_info, top_5_btc, top_5_usdt,
                    notional_values, new, i, gauges, server, printed, history, alone >>

\* The cache file and the ttl of the cached call main() is about to make.
FileAt(at) ==
    CASE at \in {"btc_info", "usdt_info"} -> f_exchange_info
      [] at \in {"btc_ticker", "usdt_ticker"} -> f_24h_ticker
      [] at = "notional" -> f_order_book
      [] OTHER -> f_book_ticker

TtlAt(at) == IF at \in {"baseline", "fetch"} THEN BOOK_TICKER_TTL ELSE CACHE_TTL

\* The requests of the initialisation answer within the second; a request
\* for the book ticker takes up to MaxLatency seconds.
LatencyAt(at) == IF at \in {"baseline", "fetch"} THEN MaxLatency ELSE 0

\* main() is about to call the gateway, unless the cache serves the call.
AboutToCall ==
    /\ pc \in {"btc_info", "usdt_info", "btc_ticker", "usdt_ticker", "notional",
               "baseline", "fetch"}
    /\ pc = "notional" => NotionalIndex <= Len(symbols_for_notional_value)
    /\ pc = "fetch" => cycle < MaxCycles
    /\ ~CacheHit(FileAt(pc), TtlAt(pc))

\* A failure that is swallowed: main() goes on and makes the call again.
GatewayFailureRetried ==
    /\ AboutToCall
    /\ ~failed
    /\ \E d \in 0..LatencyAt(pc) : now' = now + d
    /\ requests' = requests + 1
    /\ failed' = TRUE
    /\ UNCHANGED << pc, cache_on, files, exchange_info, top_5_btc, top_5_usdt,
                    notional_values, prev, new, i, gauges, server, printed, cycle,
                    hist, books_used, calls, alone >>

\* safe_request raises (transport error, status, malformed body): main() ends.
GatewayFailure ==
    /\ AboutToCall
    /\ \E d \in 0..LatencyAt(pc) : now' = now + d
    /\ requests' = requests + 1
    /\ failed' = TRUE
    /\ pc' = "Terminated"
    /\ UNCHANGED << cache_on, files, exchange_info, top_5_btc, top_5_usdt,
                    notional_values, prev, new, i, gauges, server, printed, cycle,
                    hist, books_used, calls, alone >>

\* The request is answered with JSON that lacks what the caller reads: cached
\* writes it to the file, the caller raises on it and main() ends.
MalformedResponse ==
    /\ AboutToCall
    /\ \E d \in 0..LatencyAt(pc) :
          LET written == <<[mtime |-> now + d, data |-> "malformed"]>>
          IN  /\ now' = now + d
              /\ f_exchange_info' =
                    IF pc \in {"btc_info", "usdt_info"} THEN written ELSE f_exchange_info
              /\ f_24h_ticker' =
                    IF pc \in {"btc_ticker", "usdt_ticker"} THEN written ELSE f_24h_ticker
              /\ f_order_book' = IF pc = "notional" THEN written ELSE f_order_book
              /\ f_book_ticker' =
                    IF pc \in {"baseline", "fetch"} THEN written ELSE f_book_ticker
    /\ requests' = requests + 1
    /\ failed' = TRUE
    /\ pc' = "Terminated"
    /\ UNCHANGED << cache_on, exchange_info, top_5_btc, top_5_usdt, notional_values,
                    prev, new, i, gauges, server, printed, cycle, hist, books_used,
                    calls, alone >>

Next ==
    \/ GetExchangeInfo("btc_info", "btc_ticker")
    \/ RankBTC
    \/ GetExchangeInfo("usdt_info", "usdt_ticker")
    \/ RankUSDT
    \/ NotionalOfSymbol
    \/ NotionalDone
    \/ Baseline
    \/ StartServer
    \/ Fetch
    \/ Sleep
    \/ DeltaStep
    \/ DeltaIndexError
    \/ PrintReport
    \/ Replace
    \/ GatewayFailure
    \/ MalformedResponse

Spec == Init /\ [][Next]_vars


(***************************************************************************)
(* The functions called on their own, on arguments drawn from bounded      *)
(* sets; main() does not run.                                              *)
(***************************************************************************)
main_vars == << pc, now, cache_on, files, exchange_info, top_5_btc, top_5_usdt,
                notional_values, prev, new, i, gauges, server, printed, cycle,
                history >>

MainIdle ==
    /\ pc = "Idle"
    /\ now = 0
    /\ cache_on = TRUE
    /\ f_exchange_info = <<>>
    /\ f_24h_ticker = <<>>
    /\ f_order_book = <<>>
    /\ f_book_ticker = <<>>
    /\ exchange_info = [symbols |-> <<>>]
    /\ top_5_btc = <<>>
    /\ top_5_usdt = <<>>
    /\ notional_values = <<>>
    /\ prev = <<>>
    /\ new = <<>>
    /\ i = 0
    /\ prom_spread = <<>>
    /\ spread_delta = <<>>
    /\ server = FALSE
    /\ printed = <<>>
    /\ cycle = 0
    /\ hist = <<>>
    /\ requests = 0
    /\ failed = FALSE
    /\ books_used = <<>>
    /\ calls = <<>>

\* The arguments of the ranking transform.
RankExchangeInfos ==
    { [symbols |-> << [symbol |-> "S1", quoteAsset |-> "BTC"],
                      [symbol |-> "S2", quoteAsset |-> "BTC"],
                      [symbol |-> "S3", quoteAsset |-> "BTC"] >>],
      [symbols |-> << [symbol |-> "S1", quoteAsset |-> "BTC"],
                      [symbol |-> "S2", quoteAsset |-> "USDT"],
                      [symbol |-> "S3", quoteAsset |-> "BTC"] >>] }

RankRecords == [symbol : {"S1", "S2", "S3"}, volume : 1..MaxVolume]

RankTickers == UNION {[1..n -> RankRecords] : n \in 0..MaxTickers}

InitRank ==
    /\ MainIdle
    /\ args \in [exchange_info : RankExchangeInfos, tickers : RankTickers,
                 quote_asset : {"BTC"}, top : 0..MaxTop, reverse : BOOLEAN]
    /\ ret = <<>>

\* get_top_symbols_by_quote_asset_by(...)["data"], called up to twice.
CallRank ==
    /\ Len(ret) < 2
    /\ ret' = Append(ret, get_top_symbols_by_quote_asset_by(
                              args.exchange_info, args.tickers, args.quote_asset,
                              args.top, args.reverse))
    /\ UNCHANGED << main_vars, args >>

NextRank == CallRank

SpecRank == InitRank /\ [][NextRank]_vars

\* One side of an order book: n orders whose prices rise, fall or are all equal.
Side(n, shape) ==
    [k \in 1..n |->
        CASE shape = "rising" -> <<k, 1>>
          [] shape = "falling" -> <<n + 1 - k, 1 + (k % 2)>>
          [] OTHER -> <<7, k>>]

SideLengths == {0, 1, TOP_ORDERS, TOP_ORDERS + 1, TOP_ORDERS + ExtraOrders}

Sides == {Side(n, shape) : n \in SideLengths, shape \in {"rising", "falling", "equal"}}

InitNotional ==
    /\ MainIdle
    /\ args \in [symbol : {"ABTC"}, asks : Sides, bids : Sides]
    /\ ret = <<>>

\* The two entries the aggregator appends for a symbol and its order book.
CallNotional ==
    /\ ret = <<>>
    /\ ret' = NotionalEntries(args.symbol, [asks |-> args.asks, bids |-> args.bids])
    /\ UNCHANGED << main_vars, args >>

NextNotional == CallNotional

SpecNotional == InitNotional /\ [][NextNotional]_vars


(***************************************************************************)
(* The claims.                                                             *)
(***************************************************************************)
\* A spread set without the deltas attached to its entries.
Strip(set) == [k \in 1..Len(set) |-> [symbol |-> set[k].symbol, value |-> set[k].value]]

\* C1: in a polling cycle, the delta attached to current[k], for every index
\* k the loop has passed, is |current[k].value - previous[k].value| with
\* previous the retained set, paired by position; the gauges of the symbol of
\* the index just passed hold float(value) and float(that delta).
C1_IndexPairedDelta ==
    pc \in {"delta", "replace"} =>
        /\ \A k \in 1..(i - 1) :
              /\ k <= Len(prev)
              /\ new[k].delta = Abs(new[k].value - prev[k].value)
        /\ i > 1 =>
              /\ spread_delta[new[i - 1].symbol]
                    = ToFloat(Abs(new[i - 1].value - prev[i - 1].value))
              /\ prom_spread[new[i - 1].symbol] = ToFloat(new[i - 1].value)
        /\ pc = "replace" => i = Len(new) + 1

\* C1's case: a cycle has passed every index, and at some index the symbols
\* of current and previous differ and the delta is not 0.
C1_Witness ==
    /\ pc = "replace"
    /\ Len(new) >= 2
    /\ \E k \in 1..Len(new) : new[k].symbol # prev[k].symbol /\ new[k].delta > 0

\* C2: one previous set is kept.  Before the fetch of a cycle it is the set
\* the last call returned (the baseline before the first cycle, the current
\* set of cycle n-1 before cycle n); while a cycle runs it is still that
\* set, the one before the set being processed; it is replaced only after
\* the report of the cycle, deltas included, has been printed.
C2_OnePreviousSet ==
    /\ pc \in {"start_server", "fetch"} =>
          /\ Len(hist) = cycle + 1
          /\ Strip(prev) = hist[cycle + 1]
          /\ Len(printed) = cycle
          /\ cycle > 0 => printed[cycle] = prev
    /\ pc \in {"sleep", "delta", "replace"} =>
          /\ Len(hist) = cycle + 2
          /\ Strip(prev) = hist[cycle + 1]
          /\ Strip(new) = hist[cycle + 2]
    /\ pc = "replace" =>
          /\ Len(printed) = cycle + 1
          /\ printed[cycle + 1] = new
          /\ \A k \in 1..Len(new) : new[k].symbol \in DOMAIN spread_delta

\* C2's case: the second cycle runs on the set of the first, which differs
\* from the baseline.
C2_Witness ==
    /\ pc = "replace"
    /\ cycle = 1
    /\ hist[1] # hist[2]
    /\ hist[2] # hist[3]
    /\ Strip(prev) = hist[2]

\* C7: the metrics server runs only when the whole initialisation has
\* succeeded: exchange info and tickers fetched, both top sets selected, the
\* notional values of every selected symbol computed, the baseline computed;
\* after a failure during the initialisation it does not run.
C7_ServerAfterInit ==
    /\ server =>
          /\ hist # <<>>
          /\ exchange_info.symbols # <<>>
          /\ f_exchange_info # <<>>
          /\ f_24h_ticker # <<>>
          /\ Len(notional_values) = 2 * Len(top_5_btc)
          /\ pc \in {"fetch", "sleep", "delta", "replace", "Terminated"}
    /\ (failed /\ cycle = 0 /\ Len(hist) = 0) => ~server
    /\ pc \in {"btc_info", "btc_ticker", "usdt_info", "usdt_ticker", "notional",
               "baseline", "start_server"} => ~server

\* C7's case: the server has just been started, and the baseline exists.
C7_Witness ==
    /\ server
    /\ pc = "fetch"
    /\ cycle = 0
    /\ prev # <<>>
    /\ notional_values # <<>>

\* C8: a failed gateway request ends the process: the failing step moves to
\* Terminated and leaves the previous set and the gauges as they are; during
\* Polling it happens at the fetch that opens a cycle, so the gauges are
\* those of the last completed cycle; no step follows it, so no request is
\* made again.
C8_FailFast ==
    [][ /\ ~failed
        /\ failed' =>
              /\ pc' = "Terminated"
              /\ requests' = requests + 1
              /\ UNCHANGED << prev, prom_spread, spread_delta, hist >>
              /\ server => pc = "fetch"
              /\ (server /\ cycle = 0) => (prom_spread = <<>> /\ spread_delta = <<>>)
              /\ (server /\ cycle > 0) => (i = Len(new) + 1 /\ prev = new)
      ]_vars

\* C8's case: a request failed during Polling, after a completed cycle that
\* set gauges.
C8_Witness ==
    /\ failed
    /\ pc = "Terminated"
    /\ cycle >= 1
    /\ DOMAIN spread_delta # {}

\* C9: every snapshot get_order_book returns for a symbol was fetched for
\* that symbol, so the aggregator computes the notional values of a symbol
\* from its own order book.
C9_CacheKeyedPerSymbol ==
    \A k \in 1..Len(books_used) : books_used[k].order_book.symbol = books_used[k].symbol

\* C9's case: the order books of two symbols have been asked for.
C9_Witness ==
    /\ Len(books_used) >= 2
    /\ books_used[1].symbol # books_used[2].symbol

\* C10: get_price_spread_by_symbols returns one observation per book-ticker
\* record of a tracked symbol and none for the others, in the order of the
\* records in the response, each with value askPrice - bidPrice.  The cache
\* file holds the response the last call was served.
C10_SpreadPerRecord ==
    pc \in {"start_server", "sleep"} =>
        LET result == hist[Len(hist)]
            ticker == f_book_ticker[1].data
            tracked == {top_5_usdt[k].symbol : k \in 1..Len(top_5_usdt)}
            match == {j \in 1..Len(ticker) : ticker[j].symbol \in tracked}
        IN  /\ Len(result) = Cardinality(match)
            /\ \E f \in [1..Len(result) -> match] :
                  /\ \A a, b \in 1..Len(result) : a < b => f[a] < f[b]
                  /\ \A k \in 1..Len(result) :
                        result[k] = [symbol |-> ticker[f[k]].symbol,
                                     value |-> ticker[f[k]].askPrice - ticker[f[k]].bidPrice]

\* C10's case: the response holds a record of an untracked symbol and lists
\* two tracked symbols in another order than the tracked list.
C10_Witness ==
    /\ pc = "sleep"
    /\ Len(hist[Len(hist)]) = 2
    /\ Len(f_book_ticker[1].data) > 2
    /\ Len(top_5_usdt) = 2
    /\ hist[Len(hist)][1].symbol = top_5_usdt[2].symbol
    /\ hist[Len(hist)][2].symbol = top_5_usdt[1].symbol

\* The indices of the ticker records whose symbol has the quote asset asked.
MatchingTickers ==
    {j \in 1..Len(args.tickers) :
        \E x \in Range(args.exchange_info.symbols) :
            x.quoteAsset = args.quote_asset /\ x.symbol = args.tickers[j].symbol}

\* The ranked record of ticker j.
RankedRecord(j) == [symbol |-> args.tickers[j].symbol, value |-> args.tickers[j].volume]

\* C5: in descending order, get_top_symbols_by_quote_asset_by returns records
\* of matching tickers only, each ticker record at most once, in
\* non-increasing order of value, min(top, number of matching records) of
\* them; every value returned is at least the value of every matching record
\* left out; a second call on the same inputs returns the same sequence.
C5_RankingDescending ==
    \A c \in 1..Len(ret) :
        args.reverse =>
            LET r == ret[c]
            IN  /\ Len(r) = Min(args.top, Cardinality(MatchingTickers))
                /\ \A k \in 1..(Len(r) - 1) : r[k].value >= r[k + 1].value
                /\ \E f \in [1..Len(r) -> MatchingTickers] :
                      /\ \A a, b \in 1..Len(r) : a # b => f[a] # f[b]
                      /\ \A k \in 1..Len(r) : r[k] = RankedRecord(f[k])
                      /\ \A j \in MatchingTickers \ {f[k] : k \in 1..Len(r)} :
                            \A k \in 1..Len(r) : r[k].value >= args.tickers[j].volume
                /\ r = ret[1]

\* C5's case: two calls have returned; a record of another quote asset came
\* first in the tickers, and a matching record of a lower value was left out.
C5_Witness ==
    /\ Len(ret) = 2
    /\ args.reverse
    /\ Len(ret[1]) = args.top
    /\ args.top >= 1
    /\ 1 \notin MatchingTickers
    /\ \E j \in MatchingTickers : args.tickers[j].volume < ret[1][args.top].value
    /\ ret[1][1].symbol # args.tickers[2].symbol

\* C6: ascending or descending, the records returned are in the order of
\* their values and, where the values are equal, in the order of the ticker
\* sequence; the cut to top comes after: a matching record left out comes
\* after every record returned, in that same order.
C6_StableTieBreak ==
    \A c \in 1..Len(ret) :
        LET r == ret[c]
            better(v, w) == IF args.reverse THEN v > w ELSE v < w
        IN  /\ Len(r) = Min(args.top, Cardinality(MatchingTickers))
            /\ \E f \in [1..Len(r) -> MatchingTickers] :
                  /\ \A k \in 1..Len(r) : r[k] = RankedRecord(f[k])
                  /\ \A a, b \in 1..Len(r) :
                        a < b => \/ better(r[a].value, r[b].value)
                                 \/ r[a].value = r[b].value /\ f[a] < f[b]
                  /\ \A j \in MatchingTickers \ {f[k] : k \in 1..Len(r)} :
                        \A k \in 1..Len(r) :
                            \/ better(r[k].value, args.tickers[j].volume)
                            \/ r[k].value = args.tickers[j].volume /\ f[k] < j

\* C6's case: a descending ranking returned two records of equal value and
\* different symbols, and left out a third matching record of that value.
C6_Witness ==
    /\ Len(ret) >= 1
    /\ args.reverse
    /\ Len(ret[1]) = 2
    /\ ret[1][1].value = ret[1][2].value
    /\ ret[1][1].symbol # ret[1][2].symbol
    /\ Cardinality(MatchingTickers) = 3
    /\ args.tickers[3].volume = ret[1][1].value

RECURSIVE SumKept(_, _, _, _)
\* The sum of price * quantity over the kept orders of side[lo..hi].
SumKept(side, kept, lo, hi) ==
    IF lo > hi THEN 0
    ELSE IF lo = hi THEN (IF lo \in kept THEN side[lo][1] * side[lo][2] ELSE 0)
    ELSE LET mid == (lo + hi) \div 2
         IN  SumKept(side, kept, lo, mid) + SumKept(side, kept, mid + 1, hi)

\* The orders of a side that are among its TOP_ORDERS highest-priced ones,
\* the earlier order first where prices are equal.
KeptOrders(side) ==
    {k \in 1..Len(side) :
        Cardinality({j \in 1..Len(side) :
                        \/ side[j][1] > side[k][1]
                        \/ side[j][1] = side[k][1] /\ j < k}) < TOP_ORDERS}

\* The notional value of a side by the contract: price * quantity summed over
\* its TOP_ORDERS highest-priced orders, or over all of them when it has fewer.
SideNotional(side) == SumKept(side, KeptOrders(side), 1, Len(side))

\* C3: the ask entry is derived from the ask list and the bid entry,
\* independently, from the bid list: a snapshot whose two sides have
\* different notional values gives a bid entry and an ask entry whose values
\* differ.
C3_IndependentSides ==
    ret # <<>> =>
        /\ ret[1].type = "bid"
        /\ ret[2].type = "ask"
        /\ SideNotional(args.asks) # SideNotional(args.bids) => ret[1].value # ret[2].value

\* C4: the notional value of each side, ask and bid, is the sum of
\* price * quantity over the orders kept of that side: its 200 highest-priced
\* when it has more than 200, all of them otherwise.
C4_TopOrdersOfEachSide ==
    ret # <<>> =>
        \A e \in 1..2 :
            ret[e].value = SideNotional(IF ret[e].type = "ask" THEN args.asks ELSE args.bids)

\* The part of C4 about the ask side, which the code computes from the asks.
AskSideTopOrders ==
    ret # <<>> =>
        /\ ret[2].type = "ask"
        /\ ret[2].value = SideNotional(args.asks)
        /\ Cardinality(KeptOrders(args.asks)) = Min(TOP_ORDERS, Len(args.asks))

\* The ask side's case: more than TOP_ORDERS asks, prices rising, so the kept
\* orders are the last ones.
AskSideWitness ==
    /\ ret # <<>>
    /\ Len(args.asks) > TOP_ORDERS
    /\ 1 \notin KeptOrders(args.asks)
    /\ ret[2].value < SumNotional(args.asks)

\* What C11 concludes of the first cycle: its fetch was served the cached
\* response of the baseline, its current set is the baseline, and every
\* delta it publishes is 0.
FirstCycleServedBaseline ==
    /\ calls[2].hit
    /\ calls[2].mtime = calls[1].mtime
    /\ hist[2] = hist[1]
    /\ (cycle = 0 /\ pc \in {"delta", "replace"}) =>
          \A k \in 1..(i - 1) :
              /\ new[k].delta = 0
              /\ spread_delta[new[k].symbol] = ToFloat(0)

\* What C11 says of the later cycles: a fetch that follows a fetch which
\* wrote the cache entry happens when the ttl of that entry has been reached.
LaterFetchesAfterTtl ==
    /\ \A c \in 3..Len(calls) :
          ~calls[c - 1].hit => calls[c].at >= calls[c - 1].mtime + BOOK_TICKER_TTL
    /\ (pc = "fetch" /\ cycle >= 1 /\ ~calls[Len(calls)].hit) =>
          now >= calls[Len(calls)].mtime + BOOK_TICKER_TTL

\* C11 as stated: with caching on, when the first fetch of the loop happens
\* no more than 10 seconds after the call of the initialisation that produced
\* the baseline, the first cycle is served the baseline's cached response
\* and publishes deltas of 0; from the second cycle on a fetch happens when
\* the ttl of the entry the previous fetch wrote has been reached.
C11_AsStated ==
    cache_on =>
        /\ (Len(calls) >= 2 /\ calls[2].at - calls[1].done <= BOOK_TICKER_TTL)
              => FirstCycleServedBaseline
        /\ LaterFetchesAfterTtl

\* C11 amended: the 10 seconds count from the modification time of the cache
\* file that served the baseline, which the initialisation wrote itself or
\* found, left by an earlier run.
C11_FirstCycleFromCache ==
    cache_on =>
        /\ (Len(calls) >= 2 /\ calls[2].at - calls[1].mtime <= BOOK_TICKER_TTL)
              => FirstCycleServedBaseline
        /\ LaterFetchesAfterTtl

\* C11's case: the first cycle is over, time has passed since the baseline,
\* the fetch was served from the cache and the deltas of two symbols are 0.
C11_Witness ==
    /\ cache_on
    /\ pc = "replace"
    /\ cycle = 0
    /\ calls[2].hit
    /\ calls[2].at > calls[1].done
    /\ Len(new) >= 2
    /\ \A k \in 1..Len(new) : new[k].delta = 0

\* The cycle has failed on an index of the current set.
IndexFailure == pc = "Terminated" /\ ~failed /\ server

\* C12: when the current set is longer than the previous one the cycle fails
\* at index len(previous), the first the previous set does not have, after
\* the deltas and both gauges of every index below it have been written,
\* and the previous set is still the one before the current; a cycle fails
\* this way in no other case: with a current set no longer than the previous
\* one the loop ends and the report is printed, each delta being
\* |current[k].value - previous[k].value| whatever the symbols at k are.
C12_SizeChange ==
    /\ IndexFailure =>
          /\ Len(new) > Len(prev)
          /\ i = Len(prev) + 1
          /\ \A k \in 1..Len(prev) :
                /\ new[k].delta = Abs(new[k].value - prev[k].value)
                /\ prom_spread[new[k].symbol] = ToFloat(new[k].value)
                /\ spread_delta[new[k].symbol] = ToFloat(new[k].delta)
          /\ \A k \in i..Len(new) : "delta" \notin DOMAIN new[k]
          /\ Strip(new) = hist[Len(hist)]
          /\ Strip(prev) = hist[Len(hist) - 1]
          /\ Len(printed) = cycle
    /\ (pc = "delta" /\ Len(new) > Len(prev) /\ i > Len(prev)) =>
          (ENABLED DeltaIndexError /\ ~ENABLED DeltaStep /\ ~ENABLED PrintReport)
    /\ (pc = "delta" /\ Len(new) <= Len(prev)) =>
          (~ENABLED DeltaIndexError /\ (ENABLED DeltaStep \/ ENABLED PrintReport))
    /\ pc = "replace" =>
          /\ Len(new) <= Len(prev)
          /\ Len(printed) = cycle + 1
          /\ printed[Len(printed)] = new
          /\ \A k \in 1..Len(new) :
                new[k].delta = Abs(new[k].value - prev[k].value)

\* C12's case: the cycle failed at the second index, the gauges of the first
\* having been written.
C12_Witness ==
    /\ IndexFailure
    /\ Len(prev) = 1
    /\ Len(new) = 2
    /\ i = 2
    /\ new[1].symbol \in DOMAIN spread_delta
    /\ new[1].symbol \in DOMAIN prom_spread

=============================================================================
